---- MODULE Spec2Model ----
(***************************************************************************)
(* Verification model of DocDash's rule-driven validation pipeline         *)
(* (code/src/DocDash/validation/generator.py).                             *)
(*                                                                         *)
(* generate_pandas_validation turns a list of rule templates into the text *)
(* of a Python module; execute_validation_on_data loads that module and    *)
(* calls its validate_data(df).  The model follows the emitted text: a     *)
(* rule definition is the record of the values substituted into the        *)
(* f-string of its branch, and the predicate of a rule is the statement    *)
(* sequence written between the braces after `lambda df:`.                 *)
(*                                                                         *)
(* As written, the template cannot be run: str.format at line 250 takes    *)
(* the unescaped braces of `results = {` for a replacement field and       *)
(* raises KeyError for every batch, and a lambda cannot hold statements.   *)
(* The properties below are about the program the template spells out, so  *)
(* the model substitutes the rule definitions for {rules_definition} and   *)
(* runs each predicate as the function its statements describe.            *)
(*                                                                         *)
(* Rule ids are unique within a batch (rule/generator.py asks the producer *)
(* for "A unique rule ID" and names discovered rules after their column).  *)
(*                                                                         *)
(* Dictionaries are records; a key that a dictionary lacks is a field the  *)
(* record lacks.  A `logic` string is a sequence of tokens, and            *)
(* str.split / `in` are computed over token sequences.                     *)
(***************************************************************************)
EXTENDS Integers, Sequences, FiniteSets, TLC

\* ------------------------------------------------------------------------
\* Bounds of the model
\* ------------------------------------------------------------------------
MaxRules == 2
MaxRows == 2

\* failed_records[:100]
FailedRecordsLimit == 100

\* ------------------------------------------------------------------------
\* Small helpers over sequences and dictionaries
\* ------------------------------------------------------------------------
\* dict.get(key, default)
Get(d, key, default) == IF key \in DOMAIN d THEN d[key] ELSE default

\* position of the first occurrence of tok in s, 0 when there is none
RECURSIVE IndexFrom(_, _, _)
IndexFrom(s, tok, k) ==
    IF k > Len(s) THEN 0
    ELSE IF s[k] = tok THEN k
    ELSE IndexFrom(s, tok, k + 1)

\* `tok in s`
Contains(s, tok) == IndexFrom(s, tok, 1) # 0

\* s.split(tok)[0]: everything before the first tok (all of s without tok)
SplitHead(s, tok) ==
    LET p == IndexFrom(s, tok, 1)
    IN  IF p = 0 THEN s ELSE SubSeq(s, 1, p - 1)

\* s.split(tok)[1]: what lies between the first tok and the next one
\* (only used where tok is known to occur)
SplitSecond(s, tok) ==
    LET p == IndexFrom(s, tok, 1)
    IN  SplitHead(SubSeq(s, p + 1, Len(s)), tok)

\* s[:n]
Take(s, n) == IF Len(s) <= n THEN s ELSE SubSeq(s, 1, n)

\* ------------------------------------------------------------------------
\* Tokens of rule logic and of the expressions emitted into the module
\* ------------------------------------------------------------------------
NumberTokens == {"10", "20"}
NameTokens == {"a", "x"}
ListTokens == {"['A','B']", "[]"}
InfTokens == {"float('-inf')", "float('inf')"}
OperandTokens == NumberTokens \cup NameTokens \cup ListTokens \cup InfTokens
CompareTokens == {">=", "<="}

NumberOf(tok) == IF tok = "10" THEN 10 ELSE 20
ListOf(tok) == IF tok = "['A','B']" THEN {"A", "B"} ELSE {}

\* Is the emitted text a Python expression?  Operands separated by
\* comparison operators; AND and IN are plain names to Python, so two
\* operands in a row (or no operand at all) make the module unparsable.
RECURSIVE IsExpression(_)
IsExpression(text) ==
    IF Len(text) = 0 THEN FALSE
    ELSE IF Len(text) = 1 THEN text[1] \in OperandTokens
    ELSE IF Len(text) = 2 THEN FALSE
    ELSE /\ text[1] \in OperandTokens
         /\ text[2] \in CompareTokens
         /\ IsExpression(SubSeq(text, 3, Len(text)))

\* ------------------------------------------------------------------------
\* Datasets: a DataFrame with a default integer index 0..n-1
\* ------------------------------------------------------------------------
\* A cell of a column; NA is NaN in a numeric column, None in an object one
NA == [t |-> "na", n |-> 0, s |-> ""]
Num(n) == [t |-> "num", n |-> n, s |-> ""]
Str(s) == [t |-> "str", n |-> 0, s |-> s]

NumCells == {NA, Num(5), Num(15), Num(25)}
StrCells == {NA, Str("A"), Str("C")}

\* the columns a dataset may carry under the name "a" and under the name "b"
ColumnsA(n) ==
    {[dtype |-> "num", cells |-> c] : c \in [1..n -> NumCells]}
    \cup {[dtype |-> "str", cells |-> c] : c \in [1..n -> StrCells]}
ColumnsB(n) == {[dtype |-> "num", cells |-> [k \in 1..n |-> Num(15)]]}

\* zero or one column
Optional(S) == {<<>>} \cup {<<c>> : c \in S}

DataFrame(n, A, B) ==
    [n |-> n,
     columns |-> [name \in (IF A = <<>> THEN {} ELSE {"a"})
                           \cup (IF B = <<>> THEN {} ELSE {"b"})
                  |-> IF name = "a" THEN A[1] ELSE B[1]]]

DataFrames ==
    UNION {{DataFrame(n, A, B) : A \in Optional(ColumnsA(n)),
                                 B \in Optional(ColumnsB(n))} : n \in 0..MaxRows}

EmptyFrame == DataFrame(0, <<>>, <<>>)

\* ------------------------------------------------------------------------
\* Rule templates
\* ------------------------------------------------------------------------
RangeLogics ==
    {<<"a", ">=", "10", "AND", "a", "<=", "20">>,
     <<>>,
     <<"a", ">=", "10">>,
     <<"a", "<=", "20">>,
     <<"a", ">=", "x", "AND", "a", "<=", "20">>,
     <<"a", "<=", "20", "AND", "a", ">=", "10">>,
     <<"a", ">=">>}

CategoricalLogics ==
    {<<"a", "IN", "['A','B']">>,
     <<>>,
     <<"a", "IN">>,
     <<"a", "IN", "x">>}

\* what a producer may hand over, before a rule_id is attached
TemplateBodies ==
    {[type |-> "range_check", elements |-> <<"a">>, logic |-> l,
      description |-> "range of a", severity |-> "high"] : l \in RangeLogics}
    \cup {[type |-> "range_check", elements |-> <<>>,
           logic |-> <<"a", ">=", "10", "AND", "a", "<=", "20">>,
           description |-> "range of nothing", severity |-> "high"]}
    \cup {[type |-> "categorical_check", elements |-> <<"a">>, logic |-> l,
           description |-> "category of a"] : l \in CategoricalLogics}
    \cup {[type |-> "not_null_check", elements |-> <<"a">>,
           description |-> "a is present", severity |-> "critical"]}
    \cup {[type |-> "not_null_check", description |-> "nothing is present"]}
    \cup {[type |-> "cross_field_check", elements |-> e,
           description |-> "a equals b", severity |-> "low"]
            : e \in {<<"a">>, <<"a", "b">>}}
    \cup {[type |-> "correlation_check", elements |-> <<"a", "b">>,
           logic |-> <<"Correlation">>, description |-> "a follows b",
           severity |-> "info"]}

\* rule ids are unique within a batch: the k-th template carries "r<k>"
RuleIdAt(k) == IF k = 1 THEN "r1" ELSE IF k = 2 THEN "r2" ELSE IF k = 3 THEN "r3" ELSE "r4"
RuleIds == {RuleIdAt(k) : k \in 1..(MaxRules + 1)}

\* a dictionary extended by one key
WithKey(d, key, value) ==
    [k \in DOMAIN d \cup {key} |-> IF k = key THEN value ELSE d[k]]

\* the k-th template of a batch: a body with its rule_id, or, for the
\* malformed template, a body that has no rule_id key
TemplatesAt(k) ==
    {WithKey(b, "rule_id", RuleIdAt(k)) : b \in TemplateBodies}
    \cup {[type |-> "not_null_check", elements |-> <<"a">>,
           description |-> "no id", severity |-> "high"]}

RECURSIVE RuleTemplateListsOfLen(_)
RuleTemplateListsOfLen(n) ==
    IF n = 0 THEN {<<>>}
    ELSE {Append(l, t) : l \in RuleTemplateListsOfLen(n - 1), t \in TemplatesAt(n)}

RuleTemplateLists == UNION {RuleTemplateListsOfLen(n) : n \in 0..MaxRules}

\* ------------------------------------------------------------------------
\* generate_pandas_validation: the rule definitions emitted into the module
\* ------------------------------------------------------------------------
\* lower_bound of the range_check branch
LowerBound(logic) ==
    IF Contains(logic, ">=")
    THEN SplitHead(SplitSecond(logic, ">="), "AND")
    ELSE <<"float('-inf')">>

\* upper_bound of the range_check branch
UpperBound(logic) ==
    IF Contains(logic, "<=")
    THEN SplitSecond(logic, "<=")
    ELSE <<"float('inf')">>

\* valid_values of the categorical_check branch
ValidValues(logic) ==
    IF Contains(logic, "IN")
    THEN SplitSecond(logic, "IN")
    ELSE <<"[]">>

\* The body of the loop for one template that has a rule_id: the rule
\* definitions it appends to rules_code (none or one).
RuleCode(rule) ==
    LET rule_id == rule["rule_id"]
        rule_type == Get(rule, "type", "")
        elements == Get(rule, "elements", <<>>)
        logic == Get(rule, "logic", <<>>)
        description == Get(rule, "description", "")
        severity == Get(rule, "severity", "warning")
        head == [rule_id |-> rule_id, description |-> description,
                 severity |-> severity]
    IN  IF elements = <<>> THEN <<>>
        ELSE IF rule_type = "range_check"
        THEN <<head @@
               [kind |-> "range_check", primary_element |-> elements[1],
                lower_bound |-> LowerBound(logic),
                upper_bound |-> UpperBound(logic)]>>
        ELSE IF rule_type = "categorical_check"
        THEN <<head @@
               [kind |-> "categorical_check", primary_element |-> elements[1],
                valid_values |-> ValidValues(logic)]>>
        ELSE IF rule_type = "not_null_check"
        THEN <<head @@
               [kind |-> "not_null_check", primary_element |-> elements[1]]>>
        ELSE IF rule_type = "cross_field_check" /\ Len(elements) >= 2
        THEN <<head @@
               [kind |-> "cross_field_check", primary_element |-> elements[1],
                secondary_element |-> elements[2]]>>
        ELSE <<>>

\* rules_code after the loop over templates[k..]
RECURSIVE RulesCode(_, _)
RulesCode(templates, k) ==
    IF k > Len(templates) THEN <<>>
    ELSE RuleCode(templates[k]) \o RulesCode(templates, k + 1)

\* What generate_pandas_validation reports besides the code it returns: the
\* function writes to no log, prints nothing and collects no errors, so no
\* rule_id is ever reported.
GenerateDiagnostics(templates) == {}

\* rule["rule_id"] raises KeyError for a template without that key
RaisesKeyError(templates) ==
    \E k \in 1..Len(templates) : "rule_id" \notin DOMAIN templates[k]

\* Does the emitted module parse?  Every expression substituted into a
\* rule definition has to be a Python expression.
RuleParses(code) ==
    /\ code.kind = "range_check" =>
           IsExpression(code.lower_bound) /\ IsExpression(code.upper_bound)
    /\ code.kind = "categorical_check" => IsExpression(code.valid_values)

ModuleParses(rules) == \A k \in 1..Len(rules) : RuleParses(rules[k])

\* ------------------------------------------------------------------------
\* The predicates: what the statements after `lambda df:` compute
\* ------------------------------------------------------------------------
Returned(result) == [raised |-> FALSE, result |-> result, error |-> ""]
Raised(error) == [raised |-> TRUE, result |-> [none |-> TRUE], error |-> error]

\* the value of a one-token expression; anything else does not evaluate
Evaluates(text) == Len(text) = 1 /\ text[1] \notin NameTokens

\* str(e) of the exception raised when the expression is evaluated
EvaluationError(text) ==
    IF \E k \in 1..Len(text) : text[k] \in NameTokens
    THEN "name 'x' is not defined"
    ELSE "The truth value of a Series is ambiguous"

\* value >= bound and value <= bound for a present number
AtLeast(n, bound) ==
    IF bound = "float('-inf')" THEN TRUE
    ELSE IF bound = "float('inf')" THEN FALSE
    ELSE n >= NumberOf(bound)

AtMost(n, bound) ==
    IF bound = "float('inf')" THEN TRUE
    ELSE IF bound = "float('-inf')" THEN FALSE
    ELSE n <= NumberOf(bound)

\* df[mask].index.tolist(): the index labels (0-based) of the rows whose
\* mask is true, in ascending order
RECURSIVE IndexList(_, _, _)
IndexList(mask, k, n) ==
    IF k > n THEN <<>>
    ELSE (IF mask[k] THEN <<k - 1>> ELSE <<>>) \o IndexList(mask, k + 1, n)

\* a predicate that takes "no failing row" for a pass only if there are rows
MaskResultNeedsRows(mask, n) ==
    LET failed_records == IndexList(mask, 1, n)
    IN  Returned([passed |-> Len(failed_records) = 0 /\ n > 0,
                  failed_records |-> Take(failed_records, FailedRecordsLimit)])

\* the dictionary returned at the end of every predicate
MaskResult(mask, n) ==
    LET failed_records == IndexList(mask, 1, n)
    IN  Returned([passed |-> Len(failed_records) = 0,
                  failed_records |-> Take(failed_records, FailedRecordsLimit)])

\* the guard left out: df[name] raises KeyError
ColumnNotFoundRaises(name) == Raised("'" \o name \o "'")

ColumnNotFound(name) ==
    Returned([passed |-> FALSE,
              error_message |-> "Column " \o name \o " not found in DataFrame"])

\* mask = ~((df[p] >= lower) & (df[p] <= upper)); a comparison with NaN is
\* false, a comparison of an object (string) column with a number raises
RangeCheck(code, df) ==
    LET p == code.primary_element
        col == df.columns[p]
        lower == code.lower_bound
        upper == code.upper_bound
        mask == [k \in 1..df.n |->
                   ~(/\ col.cells[k].t = "num"
                     /\ AtLeast(col.cells[k].n, lower[1])
                     /\ AtMost(col.cells[k].n, upper[1]))]
    IN  IF p \notin DOMAIN df.columns THEN ColumnNotFound(p)
        ELSE IF ~Evaluates(lower) THEN Raised(EvaluationError(lower))
        ELSE IF col.dtype = "str" /\ df.n > 0
        THEN Raised("'>=' not supported between instances of 'str' and 'int'")
        ELSE IF ~Evaluates(upper) THEN Raised(EvaluationError(upper))
        ELSE MaskResult(mask, df.n)

\* mask = ~df[p].isin(valid_values)
CategoricalCheck(code, df) ==
    LET p == code.primary_element
        col == df.columns[p]
        text == code.valid_values
        mask == [k \in 1..df.n |->
                   ~(/\ col.cells[k].t = "str"
                     /\ col.cells[k].s \in ListOf(text[1]))]
    IN  IF p \notin DOMAIN df.columns THEN ColumnNotFound(p)
        ELSE IF ~Evaluates(text) THEN Raised(EvaluationError(text))
        ELSE IF text[1] \notin ListTokens
        THEN Raised("only list-like objects are allowed to be passed to isin()")
        ELSE MaskResult(mask, df.n)

\* mask = df[p].isna()
NotNullCheck(code, df) ==
    LET p == code.primary_element
        col == df.columns[p]
        mask == [k \in 1..df.n |-> col.cells[k].t = "na"]
    IN  IF p \notin DOMAIN df.columns THEN ColumnNotFound(p)
        ELSE MaskResult(mask, df.n)

\* mask = df[p] != df[q]; a missing value differs from everything
CrossFieldCheck(code, df) ==
    LET p == code.primary_element
        q == code.secondary_element
        missing_cols == SelectSeq(<<p, q>>, LAMBDA c : c \notin DOMAIN df.columns)
        mask == [k \in 1..df.n |->
                   \/ df.columns[p].cells[k].t = "na"
                   \/ df.columns[q].cells[k].t = "na"
                   \/ df.columns[p].cells[k] # df.columns[q].cells[k]]
    IN  IF p \notin DOMAIN df.columns \/ q \notin DOMAIN df.columns
        THEN Returned([passed |-> FALSE,
                       error_message |->
                           "Columns ['" \o missing_cols[1]
                           \o (IF Len(missing_cols) = 2
                               THEN "', '" \o missing_cols[2] ELSE "")
                           \o "'] not found in DataFrame"])
        ELSE MaskResult(mask, df.n)

\* rule["validation_function"](data)
ValidationFunction(code, df) ==
    IF code.kind = "range_check" THEN RangeCheck(code, df)
    ELSE IF code.kind = "categorical_check" THEN CategoricalCheck(code, df)
    ELSE IF code.kind = "not_null_check" THEN NotNullCheck(code, df)
    ELSE CrossFieldCheck(code, df)

\* ------------------------------------------------------------------------
\* validate_data: the loop of the emitted module
\* ------------------------------------------------------------------------
\* results as validate_data builds it before the loop
InitialResults ==
    [summary |-> [total_rules |-> 0, passed_rules |-> 0, failed_rules |-> 0],
     rule_results |-> <<>>]

\* the except branch without its counter update
ExceptBranchUncounted(res, rule, message) ==
    [summary |-> res.summary,
     rule_results |->
        WithKey(res.rule_results, rule.rule_id,
                [passed |-> FALSE,
                 description |-> rule.description,
                 severity |-> rule.severity,
                 error_message |-> "Error executing rule: " \o message])]

\* the except branch: the rule is counted as failed and recorded
ExceptBranch(res, rule, message) ==
    [summary |-> [res.summary EXCEPT !.failed_rules = @ + 1],
     rule_results |->
        WithKey(res.rule_results, rule.rule_id,
                [passed |-> FALSE,
                 description |-> rule.description,
                 severity |-> rule.severity,
                 error_message |-> "Error executing rule: " \o message])]

\* the try branch for a predicate that returned rule_result
TryBranch(res, rule, rule_result) ==
    IF "passed" \notin DOMAIN rule_result
    THEN ExceptBranch(res, rule, "'passed'")
    ELSE IF ~rule_result.passed
    THEN [summary |-> [res.summary EXCEPT !.failed_rules = @ + 1],
          rule_results |->
             WithKey(res.rule_results, rule.rule_id,
                     [passed |-> rule_result.passed,
                      description |-> rule.description,
                      severity |-> rule.severity,
                      failed_records |-> Get(rule_result, "failed_records", <<>>),
                      error_message |-> Get(rule_result, "error_message", "")])]
    ELSE [summary |-> [res.summary EXCEPT !.passed_rules = @ + 1],
          rule_results |->
             WithKey(res.rule_results, rule.rule_id,
                     [passed |-> rule_result.passed,
                      description |-> rule.description,
                      severity |-> rule.severity])]

\* an iteration whose except branch swallows the error without a record
ExecuteRuleUnrecorded(res, rule, df) ==
    LET counted == [res EXCEPT !.summary.total_rules = @ + 1,
                               !.summary.failed_rules = @ + 1]
        outcome == ValidationFunction(rule, df)
    IN  IF outcome.raised
        THEN counted
        ELSE TryBranch([res EXCEPT !.summary.total_rules = @ + 1], rule,
                       outcome.result)

\* one iteration of `for rule in validation_rules`
ExecuteRule(res, rule, df) ==
    LET counted == [res EXCEPT !.summary.total_rules = @ + 1]
        outcome == ValidationFunction(rule, df)
    IN  IF outcome.raised
        THEN ExceptBranch(counted, rule, outcome.error)
        ELSE TryBranch(counted, rule, outcome.result)

\* validate_data(df) from the first rule to the return
RECURSIVE ValidateData(_, _, _, _)
ValidateData(res, rules, k, df) ==
    IF k > Len(rules) THEN res
    ELSE ValidateData(ExecuteRule(res, rules[k], df), rules, k + 1, df)

\* ------------------------------------------------------------------------
\* The text-generation service, as the remediation recommender sees it
\* (code/src/DocDash/fixer/recommender.py)
\* ------------------------------------------------------------------------
\* JSON objects the service may answer with, as the dictionaries json.loads
\* makes of them; JSON true/false are kept as "true"/"false"
ObjectTokens == {"{auto}", "{manual}", "{no can_automate}"}

ObjectOf(tok) ==
    IF tok = "{auto}"
    THEN [explanation |-> "nulls in a", remediation_steps |-> <<"fill a">>,
          can_automate |-> "true", automation_code |-> "fill a",
          auditor_explanation |-> "a was incomplete"]
    ELSE IF tok = "{manual}"
    THEN [explanation |-> "bad source", remediation_steps |-> <<"ask owner">>,
          can_automate |-> "false", automation_code |-> "fill a",
          auditor_explanation |-> "source under review"]
    ELSE [explanation |-> "unclear", remediation_steps |-> <<"review">>,
          automation_code |-> "fill a",
          auditor_explanation |-> "under review"]

\* the token that stands for three backquotes in a response
Fence == "<fence>"

\* self.llm(prompt) either raises or returns a text
ServiceRaises == [raises |-> TRUE, text |-> <<>>]
ServiceReturns(text) == [raises |-> FALSE, text |-> text]

PlanResponses ==
    {ServiceRaises,
     ServiceReturns(<<"Sorry, I cannot help">>),
     ServiceReturns(<<Fence, "json", "{auto}", Fence>>),
     ServiceReturns(<<"{manual}">>),
     ServiceReturns(<<"Here is the plan", Fence, "{no can_automate}", Fence>>),
     ServiceReturns(<<Fence, "python", "{auto}", Fence>>)}

\* a truth test that takes every can_automate value for true
TruthyAlways(value) == value = value

\* Python truth of a can_automate value: False is false, True and any
\* non-empty string are true
Truthy(value) == value # "false"

\* ------------------------------------------------------------------------
\* _generate_single_remediation
\* ------------------------------------------------------------------------
\* prompt_template.format(...): the template reads rule_info[type],
\* rule_info[description] and rule_info[severity]
PromptRaisesKeyError(rule_info) ==
    \E key \in {"type", "description", "severity"} : key \notin DOMAIN rule_info

\* json_str: the text handed to json.loads
JsonStr(text) ==
    IF Contains(text, Fence)
    THEN LET fenced == SplitSecond(text, Fence)
         IN  IF Len(fenced) > 0 /\ fenced[1] = "json" THEN Tail(fenced)
             ELSE fenced
    ELSE text

\* json.loads(json_str) succeeds
JsonLoads(json_str) == Len(json_str) = 1 /\ json_str[1] \in ObjectTokens

\* the plan returned from the except branch
FallbackPlan(rule_id, rule_info) ==
    [rule_id |-> rule_id,
     rule_type |-> Get(rule_info, "type", "unknown"),
     severity |-> Get(rule_info, "severity", "unknown"),
     explanation |-> "Could not generate explanation due to an error.",
     remediation_steps |-> <<"Manual review required">>,
     can_automate |-> "false",
     automation_code |-> "N/A",
     auditor_explanation |-> "Validation failed, but automatic remediation recommendation could not be generated. Manual review required."]

\* required_keys missing from the parsed dictionary get "Not provided"
RECURSIVE FillRequired(_, _)
FillRequired(plan, keys) ==
    IF keys = <<>> THEN plan
    ELSE FillRequired(IF Head(keys) \in DOMAIN plan THEN plan
                      ELSE WithKey(plan, Head(keys), "Not provided"),
                      Tail(keys))

RequiredKeys == <<"explanation", "remediation_steps", "can_automate",
                  "auditor_explanation">>

\* the plan returned from the try branch
ParsedPlan(rule_id, rule_info, parsed) ==
    WithKey(WithKey(WithKey(FillRequired(parsed, RequiredKeys),
                            "rule_id", rule_id),
                    "rule_type", Get(rule_info, "type", "unknown")),
            "severity", Get(rule_info, "severity", "unknown"))

\* a single remediation that lets the parse error escape
GenerateSingleRemediationUnguarded(rule_id, rule_info, response) ==
    IF PromptRaisesKeyError(rule_info) \/ response.raises
       \/ ~JsonLoads(JsonStr(response.text))
    THEN [raised |-> TRUE, plan |-> <<>>]
    ELSE [raised |-> FALSE,
          plan |-> ParsedPlan(rule_id, rule_info,
                              ObjectOf(JsonStr(response.text)[1]))]

\* _generate_single_remediation(rule_id, rule_info, rule_result, failed_data)
\* with the service answering `response`: the plan, or the exception that
\* leaves the function
GenerateSingleRemediation(rule_id, rule_info, response) ==
    IF PromptRaisesKeyError(rule_info)
    THEN [raised |-> TRUE, plan |-> <<>>]
    ELSE IF response.raises \/ ~JsonLoads(JsonStr(response.text))
    THEN [raised |-> FALSE, plan |-> FallbackPlan(rule_id, rule_info)]
    ELSE [raised |-> FALSE,
          plan |-> ParsedPlan(rule_id, rule_info,
                              ObjectOf(JsonStr(response.text)[1]))]

\* ------------------------------------------------------------------------
\* generate_remediation_recommendations
\* ------------------------------------------------------------------------
\* the keys of a dictionary keyed by rule_id, in insertion order
AllRuleIds == <<"r1", "r2", "r3", "r4", "auto_range_a">>
KeysInOrder(d) == SelectSeq(AllRuleIds, LAMBDA id : id \in DOMAIN d)

InitialRecommendations ==
    [summary |-> [total_issues |-> 0, remediated_issues |-> 0,
                  manual_review_issues |-> 0],
     remediation_plans |-> <<>>]

\* failed_rules
FailedRules(validation_results) ==
    SelectSeq(KeysInOrder(validation_results.rule_results),
              LAMBDA id : ~Get(validation_results.rule_results[id], "passed", TRUE))

\* rule_details.get(rule_id, {})
RuleInfo(templates, rule_id) ==
    LET matching == SelectSeq(templates, LAMBDA t : t["rule_id"] = rule_id)
    IN  IF matching = <<>> THEN <<>> ELSE matching[Len(matching)]

\* data.loc[failed_indices[:10]] raises KeyError for a label not in the index
LocRaisesKeyError(df, failed_indices) ==
    \E k \in 1..Len(Take(failed_indices, 10)) : failed_indices[k] >= df.n

\* ------------------------------------------------------------------------
\* The orchestrator object (code/src/DocDash/profiling/data.py)
\* ------------------------------------------------------------------------
\* Python None, and a value that is not None
None == [is_none |-> TRUE]
Some(value) == [is_none |-> FALSE, value |-> value]

\* `not x` for a slot that holds None or a text
NotText(slot) == slot.is_none \/ slot.value = ""

\* `not x` for a slot that holds None, a list or a dictionary
NotCollection(slot) == slot.is_none \/ DOMAIN slot.value = {}

\* self after __init__
FreshOrchestrator ==
    [regulatory_docs |-> <<>>,
     data_sources |-> <<>>,
     extracted_requirements |-> None,
     refined_requirements |-> None,
     rule_templates |-> None,
     discovered_rules |-> None,
     validation_code |-> None,
     validation_results |-> None,
     remediation_plans |-> None]

\* no call has returned yet
NothingReturned == [call |-> "", argument |-> None, raised |-> FALSE,
                    warned |-> FALSE, value |-> None]

\* ------------------------------------------------------------------------
\* State
\* ------------------------------------------------------------------------
VARIABLES
    pc,                 \* where the caller is
    rule_templates,     \* the batch handed to generate_pandas_validation
    validation_code,    \* the rule definitions of the generated module
    data,               \* the DataFrame validate_data works on
    validation_rules,   \* the list validate_data iterates over
    executed,           \* how many rules the loop has gone through
    results,            \* the dictionary validate_data builds and returns
    failed_rules,       \* generate_remediation_recommendations: failed_rules
    planned,            \* how many failed rules its loop has gone through
    recommendations,    \* the dictionary it builds and returns
    llm_calls,          \* the calls made to the text-generation service
    heap,               \* the DataFrame objects of a remediation pass
    remediated_data,    \* apply_automatic_remediations: the object it works on
    applied_remediations, \* the records it appends
    applying,           \* how many plans its loop has gone through
    report_data,        \* generate_audit_report: report_data
    self,               \* the AIDataProfilerOrchestrator object: its slots
    calls,              \* the stage calls run_end_to_end_pipeline has made
    returned,           \* what the last call on the orchestrator returned
    pipeline,           \* the locals of run_end_to_end_pipeline
    now,                \* the reading of the clock
    runs,               \* the bundles of the completed pipeline runs
    canned,             \* the canned answers of a stand-in service
    operations          \* how many calls the session has made

remediation_vars == <<failed_rules, planned, recommendations, llm_calls, heap,
                      remediated_data, applied_remediations, applying,
                      report_data>>

orchestrator_vars == <<self, calls, returned, pipeline, now, runs, canned,
                       operations>>

vars == <<pc, rule_templates, validation_code, data, validation_rules,
          executed, results, remediation_vars, orchestrator_vars>>

\* no orchestrator call has been made
OrchestratorIdle ==
    /\ self = FreshOrchestrator
    /\ calls = <<>>
    /\ returned = NothingReturned
    /\ pipeline = <<>>
    /\ now = 1
    /\ runs = <<>>
    /\ canned = <<>>
    /\ operations = 0

\* nothing of the remediation recommender has run
RecommenderIdle ==
    /\ failed_rules = <<>>
    /\ planned = 0
    /\ recommendations = InitialRecommendations
    /\ llm_calls = <<>>
    /\ heap = <<>>
    /\ remediated_data = 0
    /\ applied_remediations = <<>>
    /\ applying = 0
    /\ report_data = <<>>

Init ==
    /\ pc = "start"
    /\ rule_templates \in RuleTemplateLists
    /\ validation_code = <<>>
    /\ data = EmptyFrame
    /\ validation_rules = <<>>
    /\ executed = 0
    /\ results = InitialResults
    /\ RecommenderIdle
    /\ OrchestratorIdle

\* generate_pandas_validation(rule_templates)
GeneratePandasValidation ==
    /\ pc = "start"
    /\ IF RaisesKeyError(rule_templates)
       THEN /\ pc' = "generate_raised"
            /\ UNCHANGED validation_code
       ELSE /\ pc' = "generated"
            /\ validation_code' = RulesCode(rule_templates, 1)
    /\ UNCHANGED <<rule_templates, data, validation_rules, executed, results>>
    /\ UNCHANGED remediation_vars
    /\ UNCHANGED orchestrator_vars

\* execute_validation_on_data(validation_code, data): load the module and
\* enter validate_data(df); a module that does not parse raises on load
ExecuteValidationOnData ==
    /\ pc = "generated"
    /\ \E df \in DataFrames :
          IF ModuleParses(validation_code)
          THEN /\ pc' = "validating"
               /\ data' = df
               /\ validation_rules' = validation_code
               /\ executed' = 0
               /\ results' = InitialResults
          ELSE /\ pc' = "execute_raised"
               /\ UNCHANGED <<data, validation_rules, executed, results>>
    /\ UNCHANGED <<rule_templates, validation_code>>
    /\ UNCHANGED remediation_vars
    /\ UNCHANGED orchestrator_vars

\* one pass through the body of `for rule in validation_rules`
ValidateDataStep ==
    /\ pc = "validating"
    /\ executed < Len(validation_rules)
    /\ results' = ExecuteRule(results, validation_rules[executed + 1], data)
    /\ executed' = executed + 1
    /\ UNCHANGED <<pc, rule_templates, validation_code, data, validation_rules>>
    /\ UNCHANGED remediation_vars
    /\ UNCHANGED orchestrator_vars

\* return results
ValidateDataReturn ==
    /\ pc = "validating"
    /\ executed = Len(validation_rules)
    /\ pc' = "done"
    /\ UNCHANGED <<rule_templates, validation_code, data, validation_rules,
                   executed, results>>
    /\ UNCHANGED remediation_vars
    /\ UNCHANGED orchestrator_vars

Next ==
    \/ GeneratePandasValidation
    \/ ExecuteValidationOnData
    \/ ValidateDataStep
    \/ ValidateDataReturn

Spec == Init /\ [][Next]_vars

\* ------------------------------------------------------------------------
\* generate_remediation_recommendations(validation_results, data,
\* rule_templates), called with the results of a validation run
\* ------------------------------------------------------------------------
validation_vars == <<pc, rule_templates, validation_code, data,
                     validation_rules, executed, results>>

\* templates whose rules cover the shapes a rule result can take: passed,
\* failed with rows, failed on a missing column, failed by an exception
RecommenderBodies ==
    {b \in TemplateBodies :
        /\ Get(b, "elements", <<>>) = <<"a">>
        /\ \/ b.type = "not_null_check"
           \/ b.type = "range_check"
              /\ b.logic \in {<<"a", ">=", "10", "AND", "a", "<=", "20">>,
                              <<"a", ">=", "x", "AND", "a", "<=", "20">>}
           \/ b.type = "categorical_check"
              /\ b.logic = <<"a", "IN", "['A','B']">>}

RECURSIVE RecommenderTemplateListsOfLen(_)
RecommenderTemplateListsOfLen(n) ==
    IF n = 0 THEN {<<>>}
    ELSE {Append(l, WithKey(b, "rule_id", RuleIdAt(n))) :
             l \in RecommenderTemplateListsOfLen(n - 1), b \in RecommenderBodies}

RecommenderTemplateLists ==
    UNION {RecommenderTemplateListsOfLen(n) : n \in 0..MaxRules}

\* datasets with at most the column "a", holding 15 or nothing
RecommenderFrames ==
    {df \in DataFrames :
        /\ "b" \notin DOMAIN df.columns
        /\ "a" \in DOMAIN df.columns =>
              /\ df.columns["a"].dtype = "num"
              /\ \A k \in 1..df.n : df.columns["a"].cells[k] \in {NA, Num(15)}}

\* A validation run has returned; the session's rule_templates are the ones
\* that were validated, or were generated anew since and lack the first.
InitRecommender ==
    /\ pc = "done"
    /\ \E validated \in RecommenderTemplateLists :
          /\ validation_code = RulesCode(validated, 1)
          /\ rule_templates \in {validated} \cup
                (IF validated = <<>> THEN {} ELSE {Tail(validated)})
    /\ validation_rules = validation_code
    /\ executed = Len(validation_rules)
    /\ data \in RecommenderFrames
    /\ results = ValidateData(InitialResults, validation_rules, 1, data)
    /\ RecommenderIdle
    /\ OrchestratorIdle

\* the body of `for rule_id in failed_rules` for one rule, the service
\* answering `response` if it is asked
RecommendRule(rec, rule_id, validation_results, templates, df, response) ==
    LET rule_result == Get(validation_results.rule_results, rule_id, <<>>)
        rule_info == RuleInfo(templates, rule_id)
        failed_indices == Get(rule_result, "failed_records", <<>>)
        single == GenerateSingleRemediation(rule_id, rule_info, response)
    IN  IF failed_indices = <<>>
        THEN [raised |-> FALSE, called |-> FALSE, rec |-> rec]
        ELSE IF LocRaisesKeyError(df, failed_indices)
        THEN [raised |-> TRUE, called |-> FALSE, rec |-> rec]
        ELSE IF single.raised
        THEN [raised |-> TRUE, called |-> FALSE, rec |-> rec]
        ELSE [raised |-> FALSE, called |-> TRUE,
              rec |-> [summary |->
                          IF Truthy(single.plan["can_automate"])
                          THEN [rec.summary EXCEPT !.remediated_issues = @ + 1]
                          ELSE [rec.summary EXCEPT !.manual_review_issues = @ + 1],
                       remediation_plans |->
                          WithKey(rec.remediation_plans, rule_id, single.plan)]]

\* entry of generate_remediation_recommendations up to the loop
GenerateRemediationRecommendations ==
    /\ pc = "done"
    /\ LET failed == FailedRules(results)
       IN  IF "rule_results" \notin DOMAIN results
           THEN /\ pc' = "recommended"
                /\ UNCHANGED <<failed_rules, recommendations>>
           ELSE /\ recommendations' =
                      [InitialRecommendations
                          EXCEPT !.summary.total_issues = Len(failed)]
                /\ failed_rules' = failed
                /\ pc' = IF failed = <<>> THEN "recommended"
                         ELSE IF RaisesKeyError(rule_templates)
                         THEN "recommend_raised"
                         ELSE "recommending"
    /\ planned' = 0
    /\ UNCHANGED <<rule_templates, validation_code, data, validation_rules,
                   executed, results, llm_calls, heap, remediated_data,
                   applied_remediations, applying, report_data>>
    /\ UNCHANGED orchestrator_vars

\* one pass through the body of `for rule_id in failed_rules`
RecommendStep ==
    /\ pc = "recommending"
    /\ planned < Len(failed_rules)
    /\ \E response \in PlanResponses :
          LET rule_id == failed_rules[planned + 1]
              step == RecommendRule(recommendations, rule_id, results,
                                    rule_templates, data, response)
          IN  /\ recommendations' = step.rec
              /\ pc' = IF step.raised THEN "recommend_raised" ELSE pc
              /\ llm_calls' =
                    IF step.called
                    THEN Append(llm_calls, [purpose |-> "plan",
                                            rule_id |-> rule_id,
                                            response |-> response])
                    ELSE llm_calls
    /\ planned' = planned + 1
    /\ UNCHANGED <<rule_templates, validation_code, data, validation_rules,
                   executed, results, failed_rules, heap, remediated_data,
                   applied_remediations, applying, report_data>>
    /\ UNCHANGED orchestrator_vars

\* return recommendations
RecommendReturn ==
    /\ pc = "recommending"
    /\ planned = Len(failed_rules)
    /\ pc' = "recommended"
    /\ UNCHANGED <<rule_templates, validation_code, data, validation_rules,
                   executed, results, failed_rules, planned, recommendations,
                   llm_calls, heap, remediated_data, applied_remediations,
                   applying, report_data>>
    /\ UNCHANGED orchestrator_vars

NextRecommender ==
    \/ GenerateRemediationRecommendations
    \/ RecommendStep
    \/ RecommendReturn

SpecRecommender == InitRecommender /\ [][NextRecommender]_vars

\* ------------------------------------------------------------------------
\* apply_automatic_remediations(data, remediation_plans) and
\* generate_audit_report(validation_results, remediation_plans,
\* applied_remediations), called with the plans of a recommender run
\* ------------------------------------------------------------------------
\* the responses that lead to the four shapes a plan can have
ApplyResponses ==
    {r \in PlanResponses : r.raises \/ JsonLoads(JsonStr(r.text))}

\* generate_remediation_recommendations run to its end, the service answering
\* responses[k] for the k-th failed rule
RECURSIVE RecommendAll(_, _, _, _, _, _, _)
RecommendAll(rec, failed, k, validation_results, templates, df, responses) ==
    IF k > Len(failed) THEN [raised |-> FALSE, rec |-> rec]
    ELSE LET step == RecommendRule(rec, failed[k], validation_results,
                                   templates, df, responses[k])
         IN  IF step.raised THEN [raised |-> TRUE, rec |-> step.rec]
             ELSE RecommendAll(step.rec, failed, k + 1, validation_results,
                               templates, df, responses)

\* A validation run and a recommender run have returned.
InitApply ==
    /\ pc = "recommended"
    /\ rule_templates \in RecommenderTemplateLists
    /\ validation_code = RulesCode(rule_templates, 1)
    /\ validation_rules = validation_code
    /\ executed = Len(validation_rules)
    /\ data \in RecommenderFrames
    /\ results = ValidateData(InitialResults, validation_rules, 1, data)
    /\ failed_rules = FailedRules(results)
    /\ planned = Len(failed_rules)
    /\ \E responses \in [1..MaxRules -> ApplyResponses] :
          LET run == RecommendAll(
                        [InitialRecommendations
                            EXCEPT !.summary.total_issues = Len(failed_rules)],
                        failed_rules, 1, results, rule_templates, data,
                        responses)
          IN  /\ ~run.raised
              /\ recommendations = run.rec
    /\ llm_calls = <<>>
    /\ heap = <<>>
    /\ remediated_data = 0
    /\ applied_remediations = <<>>
    /\ applying = 0
    /\ report_data = <<>>
    /\ OrchestratorIdle

\* df.fillna(0) and df.dropna() on the cells of a dataset
FillNa(df) ==
    [n |-> df.n,
     columns |-> [name \in DOMAIN df.columns |->
                    [df.columns[name] EXCEPT
                        !.cells = [k \in 1..df.n |->
                                     IF df.columns[name].cells[k] = NA
                                     THEN Num(0)
                                     ELSE df.columns[name].cells[k]]]]]

DropNa(df) ==
    LET kept == SelectSeq([k \in 1..df.n |-> k],
                          LAMBDA k : \A name \in DOMAIN df.columns :
                                        df.columns[name].cells[k] # NA)
    IN  [n |-> Len(kept),
         columns |-> [name \in DOMAIN df.columns |->
                        [df.columns[name] EXCEPT
                            !.cells = [k \in 1..Len(kept) |->
                                         df.columns[name].cells[kept[k]]]]]]

Transform(op, df) == IF op = "fillna" THEN FillNa(df) ELSE DropNa(df)

\* What asking the service for code, exec of the code and the call of the
\* function it defines can do: the service raises; exec raises; the code
\* defines nothing callable; the function raises at once; it changes the
\* DataFrame it is given and returns it; it returns a new DataFrame; it
\* changes the one it is given and then raises; it changes the one it is
\* given and returns nothing.
CodeBehaviours ==
    {[kind |-> "service_raises", op |-> "none"],
     [kind |-> "exec_raises", op |-> "none"],
     [kind |-> "no_callable", op |-> "none"],
     [kind |-> "raises", op |-> "none"],
     [kind |-> "in_place", op |-> "fillna"],
     [kind |-> "in_place", op |-> "dropna"],
     [kind |-> "returns_new", op |-> "fillna"],
     [kind |-> "returns_new", op |-> "dropna"],
     [kind |-> "in_place_raises", op |-> "fillna"],
     [kind |-> "in_place_returns_none", op |-> "fillna"]}

\* str(e) of the exception a behaviour ends in
ErrorOf(kind) ==
    IF kind = "service_raises" THEN "service unavailable"
    ELSE IF kind = "exec_raises" THEN "invalid syntax"
    ELSE IF kind = "no_callable"
    THEN "Could not extract remediation function from code"
    ELSE "transformation failed"

AppliedRecord(rule_id, plan) ==
    [rule_id |-> rule_id, status |-> "applied",
     description |-> Get(plan, "explanation", "")]

FailedRecord(rule_id, error) ==
    [rule_id |-> rule_id, status |-> "failed", error |-> error]

\* no copy: the working object is the object passed in
DataCopyAliased(h, ref) == [heap |-> h, ref |-> ref]

\* data.copy(): a new object with the contents of object ref
DataCopy(h, ref) == [heap |-> Append(h, h[ref]), ref |-> Len(h) + 1]

\* a gate that also lets through every plan carrying automation_code
AutomatableWithCode(plan) ==
    Truthy(Get(plan, "can_automate", "false")) \/ "automation_code" \in DOMAIN plan

\* `if not plan.get("can_automate", False): continue` lets the plan through
Automatable(plan) == Truthy(Get(plan, "can_automate", "false"))

\* an exception that is not caught: it leaves the method, no record
ExceptExceptionMissing(h, ref, applied, rule_id, error) ==
    [raised |-> TRUE, heap |-> h, ref |-> ref, applied |-> applied]

\* `except Exception as e`: a failed record with str(e)
ExceptException(h, ref, applied, rule_id, error) ==
    [raised |-> FALSE, heap |-> h, ref |-> ref,
     applied |-> Append(applied, FailedRecord(rule_id, error))]

\* the try statement for one plan, the service and the code behaving as b;
\* ref = 0 is remediated_data bound to None
TryPlan(h, ref, applied, rule_id, plan, b) ==
    IF b.kind \in {"service_raises", "exec_raises", "raises"}
    THEN ExceptException(h, ref, applied, rule_id, ErrorOf(b.kind))
    ELSE IF b.kind = "no_callable"
    THEN [raised |-> FALSE, heap |-> h, ref |-> ref,
          applied |-> Append(applied, FailedRecord(rule_id, ErrorOf(b.kind)))]
    ELSE IF ref = 0
    THEN ExceptException(h, ref, applied, rule_id,
                         "'NoneType' object is not subscriptable")
    ELSE IF b.kind = "in_place"
    THEN [raised |-> FALSE,
          heap |-> [h EXCEPT ![ref] = Transform(b.op, h[ref])], ref |-> ref,
          applied |-> Append(applied, AppliedRecord(rule_id, plan))]
    ELSE IF b.kind = "returns_new"
    THEN [raised |-> FALSE,
          heap |-> Append(h, Transform(b.op, h[ref])), ref |-> Len(h) + 1,
          applied |-> Append(applied, AppliedRecord(rule_id, plan))]
    ELSE IF b.kind = "in_place_raises"
    THEN ExceptException([h EXCEPT ![ref] = Transform(b.op, h[ref])], ref,
                         applied, rule_id, ErrorOf(b.kind))
    ELSE [raised |-> FALSE,
          heap |-> [h EXCEPT ![ref] = Transform(b.op, h[ref])], ref |-> 0,
          applied |-> Append(applied, AppliedRecord(rule_id, plan))]

\* the body of `for rule_id, plan in remediation_plans.items()`
ApplyPlan(h, ref, applied, rule_id, plan, b) ==
    IF ~Automatable(plan)
    THEN [raised |-> FALSE, called |-> FALSE, heap |-> h, ref |-> ref,
          applied |-> applied]
    ELSE LET try == TryPlan(h, ref, applied, rule_id, plan, b)
         IN  [raised |-> try.raised, called |-> TRUE, heap |-> try.heap,
              ref |-> try.ref, applied |-> try.applied]

PlanKeys == KeysInOrder(recommendations.remediation_plans)

\* remediated_data = data.copy(); applied_remediations = []
ApplyAutomaticRemediations ==
    /\ pc = "recommended"
    /\ LET copy == DataCopy(<<data>>, 1)
       IN  /\ heap' = copy.heap
           /\ remediated_data' = copy.ref
    /\ applied_remediations' = <<>>
    /\ applying' = 0
    /\ pc' = "applying"
    /\ UNCHANGED <<rule_templates, validation_code, data, validation_rules,
                   executed, results, failed_rules, planned, recommendations,
                   llm_calls, report_data>>
    /\ UNCHANGED orchestrator_vars

\* one pass through the body of the loop over the plans
ApplyStep ==
    /\ pc = "applying"
    /\ applying < Len(PlanKeys)
    /\ \E b \in CodeBehaviours :
          LET rule_id == PlanKeys[applying + 1]
              step == ApplyPlan(heap, remediated_data, applied_remediations,
                                rule_id,
                                recommendations.remediation_plans[rule_id], b)
          IN  /\ heap' = step.heap
              /\ remediated_data' = step.ref
              /\ applied_remediations' = step.applied
              /\ pc' = IF step.raised THEN "apply_raised" ELSE pc
              /\ llm_calls' =
                    IF step.called
                    THEN Append(llm_calls, [purpose |-> "code",
                                            rule_id |-> rule_id,
                                            response |-> b])
                    ELSE llm_calls
    /\ applying' = applying + 1
    /\ UNCHANGED <<rule_templates, validation_code, data, validation_rules,
                   executed, results, failed_rules, planned, recommendations,
                   report_data>>
    /\ UNCHANGED orchestrator_vars

\* return remediated_data, applied_remediations
ApplyReturn ==
    /\ pc = "applying"
    /\ applying = Len(PlanKeys)
    /\ pc' = "applied"
    /\ UNCHANGED <<rule_templates, validation_code, data, validation_rules,
                   executed, results, failed_rules, planned, recommendations,
                   llm_calls, heap, remediated_data, applied_remediations,
                   applying, report_data>>
    /\ UNCHANGED orchestrator_vars

\* a join that takes the status of the last record, whatever its rule_id
RemediationStatusAnyRule(applied, rule_id, k, found) ==
    IF applied = <<>> THEN found
    ELSE [status |-> applied[Len(applied)].status,
          error |-> IF applied[Len(applied)].status = "failed"
                    THEN Get(applied[Len(applied)], "error", "Unknown error")
                    ELSE found.error]

\* the loop `for rem in applied_remediations` for one rule_id, from record k
RECURSIVE RemediationStatus(_, _, _, _)
RemediationStatus(applied, rule_id, k, found) ==
    IF k > Len(applied) THEN found
    ELSE RemediationStatus(
            applied, rule_id, k + 1,
            IF applied[k].rule_id # rule_id THEN found
            ELSE [status |-> applied[k].status,
                  error |-> IF applied[k].status = "failed"
                            THEN Get(applied[k], "error", "Unknown error")
                            ELSE found.error])

\* one entry of issue_details
IssueDetail(rule_id, plan, applied) ==
    LET found == RemediationStatus(applied, rule_id, 1,
                                   [status |-> "not_attempted",
                                    error |-> "None"])
    IN  [rule_id |-> rule_id,
         description |-> Get(plan, "explanation", ""),
         severity |-> Get(plan, "severity", "unknown"),
         remediation_steps |-> Get(plan, "remediation_steps", <<>>),
         automated |-> Get(plan, "can_automate", "false"),
         remediation_status |-> found.status,
         remediation_error |-> found.error,
         auditor_explanation |-> Get(plan, "auditor_explanation", "")]

\* a count that takes every record, whatever its status
CountStatusAny(applied, status) == Len(applied)

CountStatus(applied, status) ==
    Cardinality({k \in 1..Len(applied) : applied[k].status = status})

\* report_data
ReportData(validation_results, plans, applied) ==
    [validation_summary |-> Get(validation_results, "summary", <<>>),
     remediation_summary |->
        [total_issues |-> Cardinality(DOMAIN plans),
         automated_remediations |-> CountStatus(applied, "applied"),
         failed_remediations |-> CountStatus(applied, "failed"),
         manual_review_required |->
            Cardinality({id \in DOMAIN plans :
                            ~Truthy(Get(plans[id], "can_automate", "false"))})],
     issue_details |->
        [k \in 1..Len(KeysInOrder(plans)) |->
            IssueDetail(KeysInOrder(plans)[k], plans[KeysInOrder(plans)[k]],
                        applied)]]

\* generate_audit_report: report_data is built, then the service is asked
\* for the report text and returns it or raises
GenerateAuditReport ==
    /\ pc = "applied"
    /\ report_data' = ReportData(results, recommendations.remediation_plans,
                                 applied_remediations)
    /\ \E service_raises \in BOOLEAN :
          pc' = IF service_raises THEN "report_raised" ELSE "reported"
    /\ UNCHANGED <<rule_templates, validation_code, data, validation_rules,
                   executed, results, failed_rules, planned, recommendations,
                   llm_calls, heap, remediated_data, applied_remediations,
                   applying>>
    /\ UNCHANGED orchestrator_vars

NextApply ==
    \/ ApplyAutomaticRemediations
    \/ ApplyStep
    \/ ApplyReturn
    \/ GenerateAuditReport

SpecApply == InitApply /\ [][NextApply]_vars

\* ------------------------------------------------------------------------
\* apply_automatic_remediations with the call of the service at line 186
\* split into the request and the answer: the answer is the service's step,
\* not the program's, and the program sets no timer
\* ------------------------------------------------------------------------
\* the answers the service gives here; a timeout raised by the client
\* library is an answer of kind service_raises
AnswerBehaviours ==
    {b \in CodeBehaviours :
        b.kind \in {"service_raises", "no_callable", "in_place"}
        /\ b.op # "dropna"}

\* a plan stopped at the gate
SkipPlan ==
    /\ pc = "applying"
    /\ applying < Len(PlanKeys)
    /\ ~Automatable(recommendations.remediation_plans[PlanKeys[applying + 1]])
    /\ applying' = applying + 1
    /\ UNCHANGED <<pc, rule_templates, validation_code, data, validation_rules,
                   executed, results, failed_rules, planned, recommendations,
                   llm_calls, heap, remediated_data, applied_remediations,
                   report_data>>
    /\ UNCHANGED orchestrator_vars

\* code = self.llm(automation_prompt) is entered
AskForCode ==
    /\ pc = "applying"
    /\ applying < Len(PlanKeys)
    /\ Automatable(recommendations.remediation_plans[PlanKeys[applying + 1]])
    /\ pc' = "awaiting_code"
    /\ UNCHANGED <<rule_templates, validation_code, data, validation_rules,
                   executed, results, failed_rules, planned, recommendations,
                   llm_calls, heap, remediated_data, applied_remediations,
                   applying, report_data>>
    /\ UNCHANGED orchestrator_vars

\* the service answers and the rest of the try statement runs
ServiceAnswers ==
    /\ pc = "awaiting_code"
    /\ \E b \in AnswerBehaviours :
          LET rule_id == PlanKeys[applying + 1]
              step == ApplyPlan(heap, remediated_data, applied_remediations,
                                rule_id,
                                recommendations.remediation_plans[rule_id], b)
          IN  /\ heap' = step.heap
              /\ remediated_data' = step.ref
              /\ applied_remediations' = step.applied
              /\ llm_calls' = Append(llm_calls, [purpose |-> "code",
                                                 rule_id |-> rule_id,
                                                 response |-> b])
    /\ pc' = "applying"
    /\ applying' = applying + 1
    /\ UNCHANGED <<rule_templates, validation_code, data, validation_rules,
                   executed, results, failed_rules, planned, recommendations,
                   report_data>>
    /\ UNCHANGED orchestrator_vars

\* the steps that are the program's own
ProgramStep ==
    \/ ApplyAutomaticRemediations
    \/ SkipPlan
    \/ AskForCode
    \/ ApplyReturn

NextAwait ==
    \/ ProgramStep
    \/ ServiceAnswers

\* the program keeps running; nothing obliges the service to answer
SpecAwait == InitApply /\ [][NextAwait]_vars /\ WF_vars(ProgramStep)

\* ------------------------------------------------------------------------
\* The stages of the orchestrator (code/src/DocDash/profiling/data.py), each
\* as what a call does to self and what it returns
\* ------------------------------------------------------------------------
\* the guard of a stage failed: a warning is logged, self is left alone
Warned(s, value) == [raised |-> FALSE, warned |-> TRUE, self |-> s,
                     value |-> value]

\* an exception leaves the stage with self as it is at that point
StageRaised(s) == [raised |-> TRUE, warned |-> FALSE, self |-> s,
                   value |-> None]

StageReturned(s, value) == [raised |-> FALSE, warned |-> FALSE, self |-> s,
                            value |-> value]

\* what the instruction processor does in process_regulatory_documents:
\* loading or extraction raises; extraction returns and refinement raises;
\* refinement returns an empty text; refinement returns requirements
ProcessOutcomes == {"extract_raises", "refine_raises", "refine_empty",
                    "refined"}

\* the dictionary extract_validation_requirements returns
ExtractedRequirements ==
    [allowable_values |-> "{}", required_fields |-> "['a']",
     cross_validations |-> "[]", data_types |-> "{}"]

ProcessRegulatoryDocuments(s, outcome) ==
    IF s.regulatory_docs = <<>> THEN Warned(s, None)
    ELSE IF outcome = "extract_raises" THEN StageRaised(s)
    ELSE LET extracted ==
                [s EXCEPT !.extracted_requirements = Some(ExtractedRequirements)]
             refined ==
                [extracted EXCEPT !.refined_requirements =
                    Some(IF outcome = "refine_empty" THEN ""
                         ELSE "refined requirements")]
         IN  IF outcome = "refine_raises" THEN StageRaised(extracted)
             ELSE StageReturned(refined, refined.refined_requirements)

\* the lists json.loads makes of the service's answer in
\* generate_rule_templates
SessionTemplateLists ==
    {<<>>,
     <<[rule_id |-> "r1", type |-> "not_null_check", elements |-> <<"a">>,
        description |-> "a is present", severity |-> "critical"]>>}

\* generate_rule_templates: the service or json.loads raises, or a list
RuleAnswers ==
    {[raises |-> TRUE, list |-> <<>>]}
    \cup {[raises |-> FALSE, list |-> l] : l \in SessionTemplateLists}

\* the datasets of a session: one numeric column "a" with one row, holding
\* nothing or 10
SessionFrames ==
    {DataFrame(1, <<[dtype |-> "num", cells |-> <<cell>>]>>, <<>>) :
        cell \in {NA, Num(10)}}

\* discover_rules_from_data on a dataset of SessionFrames: the column is
\* skipped when more than half of it is missing; otherwise both quartiles
\* are the one value present and the bounds are that value
DiscoverRules(df) ==
    IF df.columns["a"].cells[1] = NA THEN <<>>
    ELSE <<[rule_id |-> "auto_range_a", elements |-> <<"a">>,
            logic |-> <<"a", ">=", "10", "AND", "a", "<=", "10">>,
            type |-> "range_check", severity |-> "warning",
            confidence |-> "medium",
            description |-> "Value of a should typically be between 10.00 and 10.00"]>>

GenerateValidationRules(s, data_sample, answer) ==
    IF NotText(s.refined_requirements) THEN Warned(s, None)
    ELSE IF answer.raises THEN StageRaised(s)
    ELSE IF data_sample.is_none
    THEN StageReturned([s EXCEPT !.rule_templates = Some(answer.list)],
                       Some(answer.list))
    ELSE LET discovered == DiscoverRules(data_sample.value)
             combined == answer.list \o discovered
         IN  StageReturned([s EXCEPT !.rule_templates = Some(combined),
                                     !.discovered_rules = Some(discovered)],
                           Some(combined))

\* `not self.validation_code`: the code is a text that is never empty
NotCode(slot) == slot.is_none

GenerateValidationCode(s) ==
    IF NotCollection(s.rule_templates) THEN Warned(s, None)
    ELSE IF RaisesKeyError(s.rule_templates.value) THEN StageRaised(s)
    ELSE LET code == Some(RulesCode(s.rule_templates.value, 1))
         IN  StageReturned([s EXCEPT !.validation_code = code], code)

\* df: the argument if there is one, else the first data source;
\* self.data_sources[0] raises IndexError on an empty list
DatasetOf(s, argument) ==
    IF ~argument.is_none THEN [raised |-> FALSE, df |-> argument.value]
    ELSE IF s.data_sources = <<>> THEN [raised |-> TRUE, df |-> EmptyFrame]
    ELSE [raised |-> FALSE, df |-> s.data_sources[1]]

\* results as validate_data starts with them at clock reading t
ResultsAt(t) ==
    [InitialResults EXCEPT
        !.summary = WithKey(@, "validation_timestamp", t)]

OrchestratorValidateData(s, argument, t) ==
    IF argument.is_none /\ s.data_sources = <<>> THEN Warned(s, None)
    ELSE IF NotCode(s.validation_code) THEN Warned(s, None)
    ELSE IF ~ModuleParses(s.validation_code.value) THEN StageRaised(s)
    ELSE LET validation_results ==
                Some(ValidateData(ResultsAt(t), s.validation_code.value, 1,
                                  DatasetOf(s, argument).df))
         IN  StageReturned([s EXCEPT !.validation_results = validation_results],
                           validation_results)

\* generate_remediation_recommendations from its entry to its return
Recommend(validation_results, df, templates, responses) ==
    IF "rule_results" \notin DOMAIN validation_results
    THEN [raised |-> FALSE, rec |-> InitialRecommendations]
    ELSE LET failed == FailedRules(validation_results)
             counted == [InitialRecommendations
                            EXCEPT !.summary.total_issues = Len(failed)]
         IN  IF failed = <<>> THEN [raised |-> FALSE, rec |-> counted]
             ELSE IF RaisesKeyError(templates)
             THEN [raised |-> TRUE, rec |-> counted]
             ELSE RecommendAll(counted, failed, 1, validation_results,
                               templates, df, responses)

\* as GenerateRemediationPlans, but the plans are stored in the slot of
\* validate_data
GenerateRemediationPlansWrongSlot(s, argument, responses) ==
    IF NotCollection(s.validation_results) THEN Warned(s, None)
    ELSE IF NotCollection(s.rule_templates) THEN Warned(s, None)
    ELSE IF DatasetOf(s, argument).raised THEN StageRaised(s)
    ELSE LET run == Recommend(s.validation_results.value,
                              DatasetOf(s, argument).df,
                              s.rule_templates.value, responses)
         IN  IF run.raised THEN StageRaised(s)
             ELSE StageReturned([s EXCEPT !.validation_results = Some(run.rec)],
                                Some(run.rec))

GenerateRemediationPlans(s, argument, responses) ==
    IF NotCollection(s.validation_results) THEN Warned(s, None)
    ELSE IF NotCollection(s.rule_templates) THEN Warned(s, None)
    ELSE IF DatasetOf(s, argument).raised THEN StageRaised(s)
    ELSE LET run == Recommend(s.validation_results.value,
                              DatasetOf(s, argument).df,
                              s.rule_templates.value, responses)
         IN  IF run.raised THEN StageRaised(s)
             ELSE StageReturned([s EXCEPT !.remediation_plans = Some(run.rec)],
                                Some(run.rec))

\* apply_automatic_remediations from plan k to its return
RECURSIVE ApplyAll(_, _, _, _, _, _)
ApplyAll(h, ref, applied, plans, k, behaviours) ==
    IF k > Len(KeysInOrder(plans))
    THEN [remediated_data |-> IF ref = 0 THEN None ELSE Some(h[ref]),
          applied_remediations |-> applied]
    ELSE LET rule_id == KeysInOrder(plans)[k]
             step == ApplyPlan(h, ref, applied, rule_id, plans[rule_id],
                               behaviours[k])
         IN  ApplyAll(step.heap, step.ref, step.applied, plans, k + 1,
                      behaviours)

ApplyRemediations(s, argument, behaviours) ==
    IF NotCollection(s.remediation_plans)
    THEN Warned(s, Some([remediated_data |-> None,
                         applied_remediations |-> <<>>]))
    ELSE IF DatasetOf(s, argument).raised THEN StageRaised(s)
    ELSE LET copy == DataCopy(<<DatasetOf(s, argument).df>>, 1)
         IN  StageReturned(
                s,
                Some(ApplyAll(copy.heap, copy.ref, <<>>,
                              Get(s.remediation_plans.value,
                                  "remediation_plans", <<>>),
                              1, behaviours)))

\* the report text of the service
AuditReport == "audit report"

OrchestratorGenerateAuditReport(s, applied, service_raises) ==
    IF NotCollection(s.validation_results) \/ NotCollection(s.remediation_plans)
    THEN Warned(s, None)
    ELSE IF service_raises THEN StageRaised(s)
    ELSE StageReturned(s, Some(AuditReport))

\* ------------------------------------------------------------------------
\* A session: calls on one orchestrator object, in any order
\* ------------------------------------------------------------------------
\* how many documents and how many data sources a session registers
MaxSources == 1

\* the calls a session makes on its orchestrator
MaxOperations == 4

\* one more call of a public method is made
Operation ==
    /\ operations < MaxOperations
    /\ operations' = operations + 1

\* the data argument of a stage: left out, or a dataset
DataArguments == {None} \cup {Some(df) : df \in SessionFrames}

\* the rules of a session: at most one template and one discovered rule
SessionRules == 1..2

\* the service's answers to the plan requests of one stage call: it is
\* down, or it answers every request with an automatable plan
SessionResponses ==
    {[k \in SessionRules |-> response] :
        response \in {ServiceRaises,
                      ServiceReturns(<<Fence, "json", "{auto}", Fence>>)}}

\* the behaviours of the code requests of one stage call: the service is
\* down, or every transformation fills the missing values in place
SessionBehaviours ==
    {[k \in SessionRules |-> b] :
        b \in {[kind |-> "service_raises", op |-> "none"],
               [kind |-> "in_place", op |-> "fillna"]}}

\* everything outside the program that one stage call can meet
Environments ==
    [outcome : ProcessOutcomes, answer : RuleAnswers,
     responses : SessionResponses, behaviours : SessionBehaviours,
     report_raises : BOOLEAN]

\* an environment in which nothing fails
Cooperative == CHOOSE env \in Environments :
    /\ env.outcome = "refined"
    /\ ~env.answer.raises /\ env.answer.list # <<>>
    /\ ~env.responses[1].raises
    /\ env.behaviours[1].kind = "in_place"
    /\ ~env.report_raises

\* the environments that differ in what step k of the pipeline meets
EnvironmentsAt(k) ==
    {env \in Environments :
        /\ k # 1 => env.outcome = Cooperative.outcome
        /\ k # 2 => env.answer = Cooperative.answer
        /\ k # 5 => env.responses = Cooperative.responses
        /\ k # 6 => env.behaviours = Cooperative.behaviours
        /\ k # 7 => env.report_raises = Cooperative.report_raises}

InitOrchestrator ==
    /\ pc = "idle"
    /\ rule_templates = <<>>
    /\ validation_code = <<>>
    /\ data = EmptyFrame
    /\ validation_rules = <<>>
    /\ executed = 0
    /\ results = InitialResults
    /\ RecommenderIdle
    /\ OrchestratorIdle

\* the component methods have their own state, which a session leaves alone
component_vars == <<rule_templates, validation_code, data, validation_rules,
                    executed, results, remediation_vars>>

\* add_regulatory_document(document_path): the path exists or it does not
AddRegulatoryDocument ==
    /\ pc = "idle"
    /\ Len(self.regulatory_docs) < MaxSources
    /\ Operation
    /\ \E exists \in BOOLEAN :
          self' = IF exists
                  THEN [self EXCEPT !.regulatory_docs = Append(@, "rules.txt")]
                  ELSE self
    /\ returned' = [NothingReturned EXCEPT !.call = "add_regulatory_document"]
    /\ UNCHANGED <<pc, calls, pipeline, now, runs, canned>>
    /\ UNCHANGED component_vars

\* add_data_source(dataframe=df), or a path that does not exist
AddDataSource ==
    /\ pc = "idle"
    /\ Len(self.data_sources) < MaxSources
    /\ Operation
    /\ \E source \in DataArguments :
          self' = IF source.is_none THEN self
                  ELSE [self EXCEPT !.data_sources = Append(@, source.value)]
    /\ returned' = [NothingReturned EXCEPT !.call = "add_data_source"]
    /\ UNCHANGED <<pc, calls, pipeline, now, runs, canned>>
    /\ UNCHANGED component_vars

\* a stage called on its own has returned or raised
StageCalled(call, argument, outcome) ==
    /\ Operation
    /\ self' = outcome.self
    /\ returned' = [call |-> call, argument |-> argument,
                    raised |-> outcome.raised, warned |-> outcome.warned,
                    value |-> outcome.value]
    /\ UNCHANGED <<pc, calls, pipeline, now, runs, canned>>
    /\ UNCHANGED component_vars

CallProcessRegulatoryDocuments ==
    /\ pc = "idle"
    /\ \E outcome \in ProcessOutcomes :
          StageCalled("process_regulatory_documents", None,
                      ProcessRegulatoryDocuments(self, outcome))

CallGenerateValidationRules ==
    /\ pc = "idle"
    /\ \E data_sample \in DataArguments, answer \in RuleAnswers :
          StageCalled("generate_validation_rules", data_sample,
                      GenerateValidationRules(self, data_sample, answer))

CallGenerateValidationCode ==
    /\ pc = "idle"
    /\ StageCalled("generate_validation_code", None,
                   GenerateValidationCode(self))

CallValidateData ==
    /\ pc = "idle"
    /\ \E argument \in DataArguments :
          StageCalled("validate_data", argument,
                      OrchestratorValidateData(self, argument, now))

CallGenerateRemediationPlans ==
    /\ pc = "idle"
    /\ \E argument \in DataArguments, responses \in SessionResponses :
          StageCalled("generate_remediation_plans", argument,
                      GenerateRemediationPlans(self, argument, responses))

CallApplyRemediations ==
    /\ pc = "idle"
    /\ \E argument \in DataArguments, behaviours \in SessionBehaviours :
          StageCalled("apply_remediations", argument,
                      ApplyRemediations(self, argument, behaviours))

CallGenerateAuditReport ==
    /\ pc = "idle"
    /\ \E service_raises \in BOOLEAN :
          StageCalled("generate_audit_report", None,
                      OrchestratorGenerateAuditReport(self, <<>>,
                                                      service_raises))

\* ------------------------------------------------------------------------
\* run_end_to_end_pipeline(data, generate_report)
\* ------------------------------------------------------------------------
\* the stages in the order of the steps
PipelineStages ==
    <<"process_regulatory_documents", "generate_validation_rules",
      "generate_validation_code", "validate_data",
      "generate_remediation_plans", "apply_remediations",
      "generate_audit_report">>

StepAt(position) ==
    IF position = "run_1" THEN 1 ELSE IF position = "run_2" THEN 2
    ELSE IF position = "run_3" THEN 3 ELSE IF position = "run_4" THEN 4
    ELSE IF position = "run_5" THEN 5 ELSE IF position = "run_6" THEN 6
    ELSE IF position = "run_7" THEN 7 ELSE 8

PositionAt(k) ==
    IF k = 1 THEN "run_1" ELSE IF k = 2 THEN "run_2"
    ELSE IF k = 3 THEN "run_3" ELSE IF k = 4 THEN "run_4"
    ELSE IF k = 5 THEN "run_5" ELSE IF k = 6 THEN "run_6"
    ELSE IF k = 7 THEN "run_7" ELSE "run_8"

\* the call entered: nothing done yet
RunEndToEndPipeline ==
    /\ pc = "idle"
    /\ \E argument \in DataArguments, generate_report \in BOOLEAN :
          pipeline' = [data |-> argument, generate_report |-> generate_report,
                       remediated_data |-> None,
                       applied_remediations |-> <<>>, audit_report |-> None]
    /\ calls' = <<>>
    /\ pc' = "run_1"
    /\ Operation
    /\ UNCHANGED <<self, returned, now, runs, canned>>
    /\ UNCHANGED component_vars

\* the stage call of step k, meeting env
PipelineCall(k, s, locals, t, env) ==
    IF k = 1 THEN ProcessRegulatoryDocuments(s, env.outcome)
    ELSE IF k = 2 THEN GenerateValidationRules(s, locals.data, env.answer)
    ELSE IF k = 3 THEN GenerateValidationCode(s)
    ELSE IF k = 4 THEN OrchestratorValidateData(s, locals.data, t)
    ELSE IF k = 5 THEN GenerateRemediationPlans(s, locals.data, env.responses)
    ELSE IF k = 6 THEN ApplyRemediations(s, locals.data, env.behaviours)
    ELSE OrchestratorGenerateAuditReport(s, locals.applied_remediations,
                                         env.report_raises)

\* the locals after the stage call of step k has returned
PipelineLocals(k, locals, outcome) ==
    IF k = 6
    THEN [locals EXCEPT
             !.remediated_data = outcome.value.value.remediated_data,
             !.applied_remediations = outcome.value.value.applied_remediations]
    ELSE IF k = 7 THEN [locals EXCEPT !.audit_report = outcome.value]
    ELSE locals

\* the dictionary run_end_to_end_pipeline returns
Bundle(s, locals) ==
    [remediated_data |-> locals.remediated_data,
     validation_results |-> s.validation_results,
     remediation_plans |-> s.remediation_plans,
     applied_remediations |-> locals.applied_remediations,
     audit_report |-> locals.audit_report]

\* one step of run_end_to_end_pipeline: a stage call, or the return
PipelineStep(env) ==
    LET k == StepAt(pc)
    IN  IF k = 8
        THEN /\ returned' = [call |-> "run_end_to_end_pipeline",
                             argument |-> pipeline.data,
                             raised |-> FALSE, warned |-> FALSE,
                             value |-> Some(Bundle(self, pipeline))]
             /\ pc' = "idle"
             /\ UNCHANGED <<self, calls, pipeline>>
        ELSE IF k = 7 /\ ~pipeline.generate_report
        THEN /\ pc' = PositionAt(8)
             /\ UNCHANGED <<self, calls, pipeline, returned>>
        ELSE LET outcome == PipelineCall(k, self, pipeline, now, env)
             IN  /\ self' = outcome.self
                 /\ calls' = Append(calls, PipelineStages[k])
                 /\ IF outcome.raised
                    THEN /\ returned' = [call |-> "run_end_to_end_pipeline",
                                         argument |-> pipeline.data,
                                         raised |-> TRUE, warned |-> FALSE,
                                         value |-> None]
                         /\ pc' = "idle"
                         /\ UNCHANGED pipeline
                    ELSE /\ pipeline' = PipelineLocals(k, pipeline, outcome)
                         /\ pc' = PositionAt(k + 1)
                         /\ UNCHANGED returned

InPipeline == pc \in {PositionAt(k) : k \in 1..8}

RunEndToEndStep ==
    /\ InPipeline
    /\ \E env \in EnvironmentsAt(StepAt(pc)) : PipelineStep(env)
    /\ UNCHANGED <<now, runs, canned, operations>>
    /\ UNCHANGED component_vars

NextOrchestrator ==
    \/ AddRegulatoryDocument
    \/ AddDataSource
    \/ CallProcessRegulatoryDocuments
    \/ CallGenerateValidationRules
    \/ CallGenerateValidationCode
    \/ CallValidateData
    \/ CallGenerateRemediationPlans
    \/ CallApplyRemediations
    \/ CallGenerateAuditReport
    \/ RunEndToEndPipeline
    \/ RunEndToEndStep

SpecOrchestrator == InitOrchestrator /\ [][NextOrchestrator]_vars

\* ------------------------------------------------------------------------
\* Properties
\* ------------------------------------------------------------------------
\* the rule_results entry of the k-th rule of validation_rules
HasEntry(k) == validation_rules[k].rule_id \in DOMAIN results.rule_results
Entry(k) == results.rule_results[validation_rules[k].rule_id]

\* the columns a rule definition reads
References(code) ==
    {code.primary_element}
    \cup (IF code.kind = "cross_field_check" THEN {code.secondary_element} ELSE {})

MissingColumns(code) == {c \in References(code) : c \notin DOMAIN data.columns}

MissingMessage(code) ==
    IF code.kind # "cross_field_check"
    THEN "Column " \o code.primary_element \o " not found in DataFrame"
    ELSE IF MissingColumns(code) = {"a", "b"}
    THEN "Columns ['a', 'b'] not found in DataFrame"
    ELSE IF MissingColumns(code) = {"a"}
    THEN "Columns ['a'] not found in DataFrame"
    ELSE "Columns ['b'] not found in DataFrame"

C2_SkippedTemplate ==
    /\ pc = "done"
    /\ Len(validation_rules) < Len(rule_templates)

\* the range of a rule definition whose two bounds are number literals
IsNumber(text) == Len(text) = 1 /\ text[1] \in NumberTokens

\* the index labels of the rows of column c that satisfy Fails
FailingRows(c, Fails(_)) ==
    IndexList([k \in 1..data.n |-> Fails(data.columns[c].cells[k])], 1, data.n)

Malformed(rule) ==
    \/ "rule_id" \notin DOMAIN rule
    \/ Get(rule, "elements", <<>>) = <<>>

KnownTypes == {"range_check", "categorical_check", "not_null_check",
               "cross_field_check"}

AllPresentNumbers(c) ==
    /\ data.columns[c].dtype = "num"
    /\ \A k \in 1..data.n : data.columns[c].cells[k].t = "num"

WellFormedSingleColumn(code) ==
    /\ code.kind \in {"range_check", "categorical_check", "not_null_check"}
    /\ code.kind = "range_check" =>
          Evaluates(code.lower_bound) /\ Evaluates(code.upper_bound)
    /\ code.kind = "categorical_check" =>
          Len(code.valid_values) = 1 /\ code.valid_values[1] \in ListTokens

FailedRuleIds == {failed_rules[k] : k \in 1..Len(failed_rules)}

\* C12: when generate_remediation_recommendations has returned, the keys of
\* remediation_plans are exactly the rule_ids whose validation result has
\* passed false, those that failed with an error_message and no
\* failed_records included.
C12_PlanForEveryFailedRule ==
    pc = "recommended" =>
        DOMAIN recommendations.remediation_plans =
            {id \in DOMAIN results.rule_results :
                ~Get(results.rule_results[id], "passed", TRUE)}

\* the service raised, or returned a text json.loads rejects
Unusable(response) == response.raises \/ ~JsonLoads(JsonStr(response.text))

\* C13: a failed rule whose service call raises or returns an unparsable text
\* gets the fallback plan with can_automate false, and no exception leaves
\* the generation, whatever rule_info is, so the remaining rules are handled.
C13_ServiceFailureGivesFallback ==
    /\ pc # "recommend_raised"
    /\ \A k \in 1..Len(llm_calls) :
          Unusable(llm_calls[k].response) =>
              /\ llm_calls[k].rule_id \in DOMAIN recommendations.remediation_plans
              /\ recommendations.remediation_plans[llm_calls[k].rule_id] =
                    FallbackPlan(llm_calls[k].rule_id,
                                 RuleInfo(rule_templates, llm_calls[k].rule_id))

\* ------------------------------------------------------------------------
\* Properties of apply_automatic_remediations and generate_audit_report
\* ------------------------------------------------------------------------
Plans == recommendations.remediation_plans

\* the contents of the object remediated_data is bound to
Working == IF remediated_data = 0 THEN <<>> ELSE heap[remediated_data]

InApply == pc \in {"applying", "apply_raised", "applied", "reported",
                   "report_raised"}

RecordsOf(rule_id) ==
    {k \in 1..Len(applied_remediations) :
        applied_remediations[k].rule_id = rule_id}

\* C14: a loop pass over a plan whose can_automate is false makes no service
\* call, executes nothing, appends no record and leaves the working dataset
\* as it was, also when the plan carries automation_code.
C14_ManualPlanSkipped ==
    [][(/\ pc = "applying"
        /\ applying' = applying + 1
        /\ Get(Plans[PlanKeys[applying + 1]], "can_automate", "false") = "false")
       => UNCHANGED <<llm_calls, applied_remediations, heap, remediated_data>>]_vars

C14_Witness ==
    /\ pc = "applying"
    /\ applying >= 1
    /\ Plans[PlanKeys[applying]]["can_automate"] = "false"
    /\ Plans[PlanKeys[applying]]["automation_code"] = "fill a"
    /\ \E k \in 1..data.n : data.columns["a"].cells[k] = NA

\* C15: during and after apply_automatic_remediations the object the caller
\* passed in has the contents it had at the call, whatever the plans and the
\* synthesized transformations do.
C15_CallerDataUnchanged == InApply => heap[1] = data

C15_Witness ==
    /\ pc = "applied"
    /\ \E k \in 1..Len(llm_calls) :
          llm_calls[k].response.kind \in {"in_place", "in_place_raises",
                                          "in_place_returns_none"}
    /\ remediated_data # 0
    /\ Working # data

FailingKinds == {"service_raises", "exec_raises", "no_callable", "raises",
                 "in_place_raises"}

C17_FailedTransformationLeavesNoChange ==
    [][(/\ pc = "applying"
        /\ Len(applied_remediations') = Len(applied_remediations) + 1
        /\ applied_remediations'[Len(applied_remediations')].status = "failed")
       => /\ heap' = heap
          /\ remediated_data' = remediated_data]_vars

\* C18: on return there is exactly one record for every plan whose
\* can_automate is true and none for any other plan.
C18_OneRecordPerAutomatablePlan ==
    pc = "applied" =>
        \A id \in DOMAIN Plans :
            Cardinality(RecordsOf(id)) =
                IF Get(Plans[id], "can_automate", "false") = "true" THEN 1
                ELSE 0

\* C19: when no plan has can_automate other than false (or there is no
\* plan), the returned dataset has the contents of the input and the
\* returned list of records is empty.
C19_NoAutomatablePlansNoChange ==
    (/\ pc = "applied"
     /\ \A id \in DOMAIN Plans : Get(Plans[id], "can_automate", "false") = "false")
    => /\ remediated_data # 0
       /\ Working = data
       /\ applied_remediations = <<>>

C19_Witness ==
    /\ pc = "applied"
    /\ DOMAIN Plans # {}
    /\ \A id \in DOMAIN Plans : Plans[id]["can_automate"] = "false"
    /\ \E id \in DOMAIN Plans : Plans[id]["automation_code"] = "fill a"
    /\ \E k \in 1..data.n : data.columns["a"].cells[k] = NA

Reported == pc \in {"reported", "report_raised"}

\* C20: issue_details has one row per plan, in plan order; a row's
\* remediation_status is the status of the applied record with the row's
\* rule_id, or not_attempted when there is none, and its remediation_error
\* is set only when that status is failed.
C20_IssueRowPerPlan ==
    Reported =>
        /\ Len(report_data.issue_details) = Len(PlanKeys)
        /\ \A k \in 1..Len(PlanKeys) :
              LET row == report_data.issue_details[k]
              IN  /\ row.rule_id = PlanKeys[k]
                  /\ RecordsOf(row.rule_id) = {} =>
                        row.remediation_status = "not_attempted"
                  /\ \A j \in RecordsOf(row.rule_id) :
                        row.remediation_status = applied_remediations[j].status
                  /\ row.remediation_error # "None" =>
                        row.remediation_status = "failed"

C20_Witness ==
    /\ pc = "reported"
    /\ Len(report_data.issue_details) = 2
    /\ report_data.issue_details[1].remediation_status = "not_attempted"
    /\ report_data.issue_details[2].remediation_status = "failed"
    /\ report_data.issue_details[2].remediation_error # "None"

\* ------------------------------------------------------------------------
\* Properties of the summaries
\* ------------------------------------------------------------------------
\* C28: only a plan whose parsed response set can_automate to true is counted
\* under remediated_issues; every other plan, the ones whose response left
\* can_automate out included, is counted under manual_review_issues.
C28_OnlyExplicitTrueIsAutomatable ==
    pc = "recommended" =>
        /\ recommendations.summary.remediated_issues =
              Cardinality({id \in DOMAIN recommendations.remediation_plans :
                  recommendations.remediation_plans[id]["can_automate"] = "true"})
        /\ recommendations.summary.manual_review_issues =
              Cardinality({id \in DOMAIN recommendations.remediation_plans :
                  recommendations.remediation_plans[id]["can_automate"] # "true"})

\* C30: when generate_remediation_recommendations has returned,
\* total_issues is the sum of remediated_issues and manual_review_issues and
\* is the number of entries of remediation_plans.
C30_PlanSummaryAddsUp ==
    pc = "recommended" =>
        /\ recommendations.summary.total_issues =
              recommendations.summary.remediated_issues
              + recommendations.summary.manual_review_issues
        /\ recommendations.summary.total_issues =
              Cardinality(DOMAIN recommendations.remediation_plans)

\* the description of the template with this rule_id
TemplateDescription(rule_id) ==
    Get(RuleInfo(rule_templates, rule_id), "description", "")

\* the first half of C27 alone: the rule_results entries carry the
\* descriptions of their templates
DescriptionInResults ==
    \A id \in DOMAIN results.rule_results :
        results.rule_results[id].description = TemplateDescription(id)

\* C27: the description of a rule template is the description of the rule's
\* rule_results entry and the description of the rule's row in the
\* issue_details of the audit report data.
C27_DescriptionCarried ==
    /\ DescriptionInResults
    /\ Reported =>
          \A k \in 1..Len(report_data.issue_details) :
             report_data.issue_details[k].description =
                TemplateDescription(report_data.issue_details[k].rule_id)

\* C29: in the report data built from the plans and the records of an apply
\* pass, total_issues is the sum of automated_remediations,
\* failed_remediations and manual_review_required.
C29_AuditCountsAddUp ==
    Reported =>
        report_data.remediation_summary.total_issues =
            report_data.remediation_summary.automated_remediations
            + report_data.remediation_summary.failed_remediations
            + report_data.remediation_summary.manual_review_required

C29_Witness ==
    /\ pc = "reported"
    /\ report_data.remediation_summary.total_issues = 2
    /\ report_data.remediation_summary.automated_remediations = 1
    /\ report_data.remediation_summary.manual_review_required = 1

\* ------------------------------------------------------------------------
\* Properties of the calls of the service
\* ------------------------------------------------------------------------
\* C26: a call of the service is bounded: a program waiting for the service
\* stops waiting, whether or not the service answers, so the apply pass
\* reaches its return.
C26_ServiceCallBounded ==
    /\ (pc = "awaiting_code") ~> (pc # "awaiting_code")
    /\ (pc = "applying") ~> (pc = "applied")


\* ------------------------------------------------------------------------
\* Properties of the orchestrator
\* ------------------------------------------------------------------------
\* a step in which one stage was called on its own and has ended
StageCallEnded(call) ==
    /\ pc = "idle" /\ pc' = "idle"
    /\ operations' = operations + 1
    /\ returned'.call = call

\* no dataset: no data argument and no data source
NoDataset(s, argument) == argument.is_none /\ s.data_sources = <<>>

\* something the stage needs is empty in s
NeedMissing(call, s, argument) ==
    IF call = "process_regulatory_documents" THEN s.regulatory_docs = <<>>
    ELSE IF call = "generate_validation_rules"
    THEN NotText(s.refined_requirements)
    ELSE IF call = "generate_validation_code"
    THEN NotCollection(s.rule_templates)
    ELSE IF call = "validate_data"
    THEN NotCode(s.validation_code) \/ NoDataset(s, argument)
    ELSE IF call = "generate_remediation_plans"
    THEN \/ NotCollection(s.validation_results)
         \/ NotCollection(s.rule_templates)
         \/ NoDataset(s, argument)
    ELSE IF call = "apply_remediations"
    THEN NotCollection(s.remediation_plans) \/ NoDataset(s, argument)
    ELSE NotCollection(s.validation_results)
         \/ NotCollection(s.remediation_plans)

\* None, or (None, []) from apply_remediations
NothingValue(call) ==
    IF call = "apply_remediations"
    THEN Some([remediated_data |-> None, applied_remediations |-> <<>>])
    ELSE None

Populated(s) ==
    <<~NotCollection(s.extracted_requirements),
      ~NotText(s.refined_requirements),
      ~NotCollection(s.rule_templates),
      ~NotCode(s.validation_code),
      ~NotCollection(s.validation_results),
      ~NotCollection(s.remediation_plans)>>

\* C22 (as claimed): in every state a session reaches from a freshly
\* constructed orchestrator, the slots extracted_requirements,
\* refined_requirements, rule_templates, validation_code,
\* validation_results, remediation_plans are populated as a prefix of that
\* order: a populated slot has every earlier slot populated.
C22_SlotsPopulatedAsPrefix ==
    \A i \in 1..6 : \A j \in 1..6 :
        (i < j /\ Populated(self)[j]) => Populated(self)[i]

\* a step in which the stage was called, on its own or by
\* run_end_to_end_pipeline, and has ended
StageRan(call) ==
    \/ StageCallEnded(call)
    \/ InPipeline /\ calls' = Append(calls, call)

\* C23: no stage changes a slot of an earlier stage: generate_validation_code
\* leaves refined_requirements and rule_templates as they are; validate_data
\* leaves rule_templates and validation_code; generate_remediation_plans
\* leaves rule_templates, validation_code and validation_results;
\* apply_remediations and generate_audit_report leave every slot.
C23_EarlierSlotsUnchanged ==
    [][/\ StageRan("generate_validation_code")
          => /\ self'.refined_requirements = self.refined_requirements
             /\ self'.rule_templates = self.rule_templates
       /\ StageRan("validate_data")
          => /\ self'.rule_templates = self.rule_templates
             /\ self'.validation_code = self.validation_code
       /\ StageRan("generate_remediation_plans")
          => /\ self'.rule_templates = self.rule_templates
             /\ self'.validation_code = self.validation_code
             /\ self'.validation_results = self.validation_results
       /\ (StageRan("apply_remediations") \/ StageRan("generate_audit_report"))
          => self' = self]_vars

\* generate_remediation_plans, called on its own, has stored plans for a
\* failed rule
C23_Witness ==
    /\ pc = "idle"
    /\ returned.call = "generate_remediation_plans"
    /\ ~returned.raised /\ ~returned.warned
    /\ returned.value = self.remediation_plans
    /\ DOMAIN self.remediation_plans.value.remediation_plans # {}

\* run_end_to_end_pipeline has ended: the last call of the session was a run
RunEnded == pc = "idle" /\ returned.call = "run_end_to_end_pipeline"

\* C24 (as claimed): run_end_to_end_pipeline, started in any session state,
\* calls process_regulatory_documents, generate_validation_rules,
\* generate_validation_code, validate_data, generate_remediation_plans,
\* apply_remediations and generate_audit_report once each in that order and
\* returns the artifact bundle; it never raises.
C24_RunCallsEveryStageAndReturns ==
    RunEnded =>
        /\ ~returned.raised
        /\ calls = PipelineStages
        /\ returned.value = Some(Bundle(self, pipeline))

\* ------------------------------------------------------------------------
\* Two runs of the pipeline on the same inputs with a canned service
\* ------------------------------------------------------------------------
\* the readings of the clock
MaxClock == 3

\* the program is started with one document and a service stand-in that
\* gives the same answers every time
InitTwoRuns ==
    /\ pc = "idle"
    /\ rule_templates = <<>>
    /\ validation_code = <<>>
    /\ data = EmptyFrame
    /\ validation_rules = <<>>
    /\ executed = 0
    /\ results = InitialResults
    /\ RecommenderIdle
    /\ self = FreshOrchestrator
    /\ calls = <<>>
    /\ returned = NothingReturned
    /\ pipeline = <<>>
    /\ now = 1
    /\ runs = <<>>
    /\ operations = 0
    /\ canned \in [service : Environments, data : DataArguments,
                   generate_report : BOOLEAN]

\* a new orchestrator is built, the document is added and
\* run_end_to_end_pipeline is entered with the inputs of the program
StartRun ==
    /\ pc = "idle"
    /\ operations < 2
    /\ operations' = operations + 1
    /\ self' = [FreshOrchestrator EXCEPT !.regulatory_docs = <<"rules.txt">>]
    /\ pipeline' = [data |-> canned.data,
                    generate_report |-> canned.generate_report,
                    remediated_data |-> None,
                    applied_remediations |-> <<>>, audit_report |-> None]
    /\ calls' = <<>>
    /\ pc' = "run_1"
    /\ UNCHANGED <<returned, now, runs, canned>>
    /\ UNCHANGED component_vars

\* one step of the run, the service giving its canned answers; the bundle of
\* a run that returns is kept
CannedRunStep ==
    /\ InPipeline
    /\ PipelineStep(canned.service)
    /\ runs' = IF StepAt(pc) = 8 THEN Append(runs, Bundle(self, pipeline))
               ELSE runs
    /\ UNCHANGED <<now, canned, operations>>
    /\ UNCHANGED component_vars

\* time passes
Tick ==
    /\ now < MaxClock
    /\ now' = now + 1
    /\ UNCHANGED <<pc, self, calls, returned, pipeline, runs, canned,
                   operations>>
    /\ UNCHANGED component_vars

NextTwoRuns ==
    \/ StartRun
    \/ CannedRunStep
    \/ Tick

SpecTwoRuns == InitTwoRuns /\ [][NextTwoRuns]_vars

\* rule_id -> status of the records of an apply pass
StatusOutcomes(applied) ==
    {<<applied[k].rule_id, applied[k].status>> : k \in 1..Len(applied)}

====
